---------------------------- MODULE Spec2Model ----------------------------
(***************************************************************************)
(* A model of wfsfuse, the FUSE front end of the WFS flat-image file       *)
(* system (src/wfsfuse.c with the layout header wfs.h).                    *)
(*                                                                         *)
(* The backing image is a flat array of bytes; every structure the code    *)
(* reads (file entries, the block allocation table, data blocks) is read   *)
(* from it with pread at the byte offsets the code computes and decoded    *)
(* the way the packed C structures lay it out (little-endian host).        *)
(* Bytes are 0..255, strings are sequences of bytes without the closing    *)
(* NUL.  The FUSE callbacks are the operations; wfs_read's two loops are   *)
(* stepped one iteration per action.                                       *)
(***************************************************************************)
EXTENDS Integers, Sequences, FiniteSets, TLC

(***************************************************************************)
(* On-disk layout (wfs.h)                                                  *)
(***************************************************************************)
WFS_MAGIC_SIZE == 16
WFS_FILENAME_SIZE == 58
WFS_BLOCK_SIZE == 512
WFS_N_FILES == 64
WFS_N_BLOCKS == 16384
WFS_BLOCK_FREE == 0
WFS_BLOCK_EOF == 65534
\* WFS_SIZE_MASK, 0x0fffffff
WFS_SIZE_MASK == 268435455

\* sizeof(wfs_file_entry_t), packed: the name, a uint16_t and a uint32_t
EntrySize == WFS_FILENAME_SIZE + 2 + 4
WFS_ENTRIES_START == WFS_MAGIC_SIZE
WFS_BLOCK_TABLE_START == WFS_ENTRIES_START + (WFS_N_FILES * EntrySize)
WFS_BLOCK_TABLE_SIZE == WFS_N_BLOCKS * 2
WFS_DATA_START == WFS_BLOCK_TABLE_START + WFS_BLOCK_TABLE_SIZE

wfs_get_size ==
  WFS_MAGIC_SIZE + EntrySize * WFS_N_FILES + WFS_N_BLOCKS * 2
    + WFS_N_BLOCKS * WFS_BLOCK_SIZE

wfs_get_block_offset(blk) == WFS_DATA_START + blk * WFS_BLOCK_SIZE

\* errno values returned (negated) by the callbacks
ENOENT == 2
EIO == 5
ENOTDIR == 20
EISDIR == 21
EINVAL == 22
ENOSYS == 38

\* the path separator '/'
Slash == 47

UINT16 == 65536
Min(a, b) == IF a < b THEN a ELSE b
Max(a, b) == IF a > b THEN a ELSE b

(***************************************************************************)
(* File entries                                                            *)
(*                                                                         *)
(* A decoded wfs_file_entry_t is a record: filename, the 58 bytes of the   *)
(* name field; start_block; and the 32-bit size word kept as its top four  *)
(* bits (size_hi, bit 3 of which is WFS_SIZE_IS_DIRECTORY) and its low 28  *)
(* bits (size_lo), so that every value fits in 31 bits.                     *)
(***************************************************************************)
ZeroName == [i \in 1..WFS_FILENAME_SIZE |-> 0]
ZeroEntry == [filename |-> ZeroName, start_block |-> 0, size_hi |-> 0, size_lo |-> 0]

\* the C string held in a name field: the bytes before the first NUL
CStr(bytes) ==
  LET nuls == {i \in 1..Len(bytes) : bytes[i] = 0}
      n == IF nuls = {} THEN Len(bytes)
           ELSE (CHOOSE i \in nuls : \A j \in nuls : i <= j) - 1
  IN  SubSeq(bytes, 1, n)

\* strncmp(a, b, WFS_FILENAME_SIZE) == 0
strncmp_eq(a, b) ==
  CStr(SubSeq(a, 1, Min(Len(a), WFS_FILENAME_SIZE)))
    = CStr(SubSeq(b, 1, Min(Len(b), WFS_FILENAME_SIZE)))

\* the 64 bytes of a packed entry
EncodeEntry(e) ==
  [i \in 1..EntrySize |->
     IF i <= WFS_FILENAME_SIZE THEN e.filename[i]
     ELSE IF i = WFS_FILENAME_SIZE + 1 THEN e.start_block % 256
     ELSE IF i = WFS_FILENAME_SIZE + 2 THEN e.start_block \div 256
     ELSE IF i = WFS_FILENAME_SIZE + 3 THEN e.size_lo % 256
     ELSE IF i = WFS_FILENAME_SIZE + 4 THEN (e.size_lo \div 256) % 256
     ELSE IF i = WFS_FILENAME_SIZE + 5 THEN (e.size_lo \div 65536) % 256
     ELSE (e.size_lo \div 16777216) + 16 * e.size_hi]

\* the entry a pread of EntrySize bytes fills in
DecodeEntry(b) ==
  [filename |-> SubSeq(b, 1, WFS_FILENAME_SIZE),
   start_block |-> b[WFS_FILENAME_SIZE + 1] + 256 * b[WFS_FILENAME_SIZE + 2],
   size_lo |-> b[WFS_FILENAME_SIZE + 3] + 256 * b[WFS_FILENAME_SIZE + 4]
                 + 65536 * b[WFS_FILENAME_SIZE + 5]
                 + 16777216 * (b[WFS_FILENAME_SIZE + 6] % 16),
   size_hi |-> b[WFS_FILENAME_SIZE + 6] \div 16]

wfs_file_entry_is_empty(e) ==
  e.filename[1] = 0 \/ e.start_block = WFS_BLOCK_FREE

\* (size & WFS_SIZE_IS_DIRECTORY) == WFS_SIZE_IS_DIRECTORY, bit 31
wfs_file_entry_is_directory(e) == e.size_hi >= 8

\* size & WFS_SIZE_MASK
wfs_file_entry_get_size(e) == e.size_lo % (WFS_SIZE_MASK + 1)


(***************************************************************************)
(* Images                                                                  *)
(*                                                                         *)
(* An image is its three regions after the magic: entries, the 64 packed   *)
(* root entries as bytes; table, the allocation table (slot index ->       *)
(* 16-bit value, slots left out hold WFS_BLOCK_FREE); data, the data       *)
(* blocks (block number -> 512 bytes, blocks left out hold zeros).  The    *)
(* remaining fields describe what the image was built to contain and are   *)
(* read by the properties only, never by the operations: files, the        *)
(* regular files with their path, size and chain; dirs, the directories    *)
(* with the names stored in their slots.                                   *)
(***************************************************************************)
Name(s) == [i \in 1..WFS_FILENAME_SIZE |-> IF i <= Len(s) THEN s[i] ELSE 0]
Rep(c, n) == [i \in 1..n |-> c]

FileEntry(s, start, sz) ==
  [filename |-> Name(s), start_block |-> start, size_hi |-> 0, size_lo |-> sz]
DirEntry(s, start) ==
  [filename |-> Name(s), start_block |-> start, size_hi |-> 8, size_lo |-> 0]

\* the bytes of a table of n entry slots, one packed entry after the other,
\* slots left out being zero
SlotBytes(n, slots) ==
  SubSeq([p \in 1..(n * EntrySize) |->
            LET s == (p - 1) \div EntrySize
            IN  IF s \in DOMAIN slots
                  THEN EncodeEntry(slots[s])[((p - 1) % EntrySize) + 1]
                  ELSE 0],
         1, n * EntrySize)

\* the content written to a file's block b: every block and position differs
FileBlock(b) ==
  SubSeq([p \in 1..WFS_BLOCK_SIZE |->
            (b * 37 + (p - 1) * 11 + ((p - 1) \div 256)) % 256],
         1, WFS_BLOCK_SIZE)

s_docs == <<100, 111, 99, 115>>
s_a_txt == <<97, 46, 116, 120, 116>>
s_missing == <<109, 105, 115, 115, 105, 110, 103>>
s_f == <<102>>
s_g == <<103>>
s_x == <<120>>
s_big == <<98, 105, 103>>
s_one == <<111, 110, 101>>
s_deep == <<100, 101, 101, 112>>
s_late == <<108, 97, 116, 101>>
s_z == <<122>>
s_c == <<99>>
s_o == <<111>>
s_s == <<115>>
s_w == <<119>>
\* names of 56, 58 and 59 bytes: the first two fit the name field
s_n56 == Rep(110, WFS_FILENAME_SIZE - 2)
s_n58 == Rep(109, WFS_FILENAME_SIZE)
s_n59 == Rep(108, WFS_FILENAME_SIZE + 1)

P1(a) == <<Slash>> \o a
P2(a, b) == <<Slash>> \o a \o <<Slash>> \o b

\* A well-formed image: every chain has ceil(size / 512) blocks and ends in
\* WFS_BLOCK_EOF.  /docs is the one-block directory holding the 600-byte
\* a.txt; /big is a directory of two blocks, 14 and 20, and block 15, which
\* follows block 14 on the disk, is the data of the regular file /g.
WellFormedImage ==
  [entries |-> SlotBytes(WFS_N_FILES,
       (0 :> DirEntry(s_docs, 3)) @@ (1 :> FileEntry(s_f, 7, 512))
    @@ (3 :> FileEntry(s_n56, 12, 10))
    @@ (4 :> DirEntry(s_big, 14)) @@ (5 :> FileEntry(s_g, 15, 512))
    @@ (6 :> FileEntry(s_n58, 13, 10)) @@ (20 :> FileEntry(s_late, 11, 100))),
   table |-> (2 :> WFS_BLOCK_EOF) @@ (4 :> 9) @@ (8 :> WFS_BLOCK_EOF)
    @@ (6 :> WFS_BLOCK_EOF) @@ (10 :> WFS_BLOCK_EOF) @@ (11 :> WFS_BLOCK_EOF)
    @@ (12 :> WFS_BLOCK_EOF) @@ (13 :> 20) @@ (19 :> WFS_BLOCK_EOF)
    @@ (14 :> WFS_BLOCK_EOF) @@ (15 :> WFS_BLOCK_EOF) @@ (16 :> WFS_BLOCK_EOF),
   data |-> (3 :> SlotBytes(8, (0 :> FileEntry(s_a_txt, 5, 600))))
    @@ (5 :> FileBlock(5)) @@ (9 :> FileBlock(9)) @@ (7 :> FileBlock(7))
    @@ (11 :> FileBlock(11)) @@ (12 :> FileBlock(12)) @@ (13 :> FileBlock(13))
    @@ (14 :> SlotBytes(8, (0 :> FileEntry(s_one, 16, 10))))
    @@ (15 :> SlotBytes(8, (0 :> FileEntry(s_x, 7, 512))))
    @@ (16 :> FileBlock(16)) @@ (17 :> FileBlock(17))
    @@ (20 :> SlotBytes(8, (3 :> FileEntry(s_deep, 17, 10)))),
   wellFormed |-> TRUE,
   files |-> {[path |-> P2(s_docs, s_a_txt), size |-> 600, chain |-> <<5, 9>>],
              [path |-> P1(s_f), size |-> 512, chain |-> <<7>>],
              [path |-> P1(s_n56), size |-> 10, chain |-> <<12>>],
              [path |-> P1(s_n58), size |-> 10, chain |-> <<13>>],
              [path |-> P1(s_g), size |-> 512, chain |-> <<15>>],
              [path |-> P1(s_late), size |-> 100, chain |-> <<11>>],
              [path |-> P2(s_big, s_one), size |-> 10, chain |-> <<16>>],
              [path |-> P2(s_big, s_deep), size |-> 10, chain |-> <<17>>]},
   dirs |-> {[path |-> <<Slash>>, chain |-> <<>>,
              names |-> {s_docs, s_f, s_n56, s_big, s_g, s_n58, s_late}],
             [path |-> P1(s_docs), chain |-> <<3>>, names |-> {s_a_txt}],
             [path |-> P1(s_big), chain |-> <<14, 20>>, names |-> {s_one, s_deep}]}]

\* An image of the right size whose allocation table is corrupt: the chain
\* of /z reaches a free slot, that of /c is a cycle, that of /o points
\* outside the table, /s starts outside the table and the chain of /w ends
\* one block early.  Bytes 62..63 of data block 15 are where table slot
\* 19999 would be.
CorruptImage ==
  [entries |-> SlotBytes(WFS_N_FILES,
       (0 :> FileEntry(s_z, 5, 1100)) @@ (1 :> FileEntry(s_c, 6, 1500))
    @@ (2 :> FileEntry(s_o, 8, 1100)) @@ (3 :> FileEntry(s_s, 30000, 100))
    @@ (4 :> FileEntry(s_w, 9, 1100))),
   table |-> (5 :> 7) @@ (6 :> 6) @@ (7 :> 20000) @@ (8 :> WFS_BLOCK_EOF),
   data |-> (5 :> FileBlock(5)) @@ (6 :> FileBlock(6)) @@ (7 :> FileBlock(7))
    @@ (8 :> FileBlock(8)) @@ (9 :> FileBlock(9))
    @@ (15 :> [p \in 1..WFS_BLOCK_SIZE |-> IF p = 63 THEN 5 ELSE 0]),
   wellFormed |-> FALSE,
   files |-> {[path |-> P1(s_z), size |-> 1100, chain |-> <<5>>],
              [path |-> P1(s_c), size |-> 1500, chain |-> <<6, 7>>],
              [path |-> P1(s_o), size |-> 1100, chain |-> <<8>>],
              [path |-> P1(s_s), size |-> 100, chain |-> <<>>],
              [path |-> P1(s_w), size |-> 1100, chain |-> <<9>>]},
   dirs |-> {[path |-> <<Slash>>, chain |-> <<>>,
              names |-> {s_z, s_c, s_o, s_s, s_w}]}]

Images == <<WellFormedImage, CorruptImage>>

(***************************************************************************)
(* Storage access: pread on the image file                                 *)
(***************************************************************************)
\* the four magic words, little-endian
Magic == <<238, 255, 192, 0, 0, 0, 0, 0, 80, 19, 13, 240, 239, 190, 0, 0>>

\* the byte at offset off of the image file, 0 <= off < wfs_get_size
ImgByte(img, off) ==
  IF off < WFS_ENTRIES_START THEN Magic[off + 1]
  ELSE IF off < WFS_BLOCK_TABLE_START THEN img.entries[off - WFS_ENTRIES_START + 1]
  ELSE IF off < WFS_DATA_START
    THEN LET idx == (off - WFS_BLOCK_TABLE_START) \div 2
             v == IF idx \in DOMAIN img.table THEN img.table[idx] ELSE WFS_BLOCK_FREE
         IN  IF (off - WFS_BLOCK_TABLE_START) % 2 = 0 THEN v % 256 ELSE v \div 256
  ELSE LET b == (off - WFS_DATA_START) \div WFS_BLOCK_SIZE + 1
           p == (off - WFS_DATA_START) % WFS_BLOCK_SIZE
       IN  IF b \in DOMAIN img.data THEN img.data[b][p + 1] ELSE 0

\* pread(image->fd, buf, count, off): the bytes transferred, fewer than count
\* (none at all) where the range passes the end of the image file
pread(img, count, off) ==
  [i \in 1..Max(0, Min(count, wfs_get_size - off)) |-> ImgByte(img, off + i - 1)]

(***************************************************************************)
(* Low-level file system routines                                          *)
(***************************************************************************)
\* the value an argument takes when it is passed as a uint16_t
AsUint16(v) == v % UINT16

\* wfs_block_table_read: value starts 0 and pread fills in what it transfers
wfs_block_table_read(img, idx) ==
  LET b == pread(img, 2, WFS_BLOCK_TABLE_START + (idx * 2))
  IN  (IF Len(b) >= 1 THEN b[1] ELSE 0) + 256 * (IF Len(b) >= 2 THEN b[2] ELSE 0)

wfs_get_block(img, current_block) ==
  wfs_block_table_read(img, AsUint16(current_block - 1))

wfs_get_next_block(img, current_block) ==
  IF current_block = WFS_BLOCK_EOF THEN current_block
  ELSE IF current_block - 1 >= WFS_N_BLOCKS THEN WFS_BLOCK_EOF
  ELSE wfs_block_table_read(img, AsUint16(current_block - 1))

(***************************************************************************)
(* Generic file entry operations                                           *)
(***************************************************************************)
\* the number of slots wfs_file_entry_operation scans
aantalfiles == 16

\* where the scan of parent starts: the root table for the empty entry, else
\* the first data block of parent
entrystart(parent) ==
  IF ~wfs_file_entry_is_empty(parent)
    THEN wfs_get_block_offset(parent.start_block - 1)
    ELSE WFS_ENTRIES_START

\* the byte offsets of the slots the scan reads, in scan order
ScanOffsets(parent) ==
  [k \in 1..aantalfiles |-> entrystart(parent) + ((k - 1) * EntrySize)]

\* tmp_entry after the pread of one slot; a transfer cut short by the end of
\* the image leaves the rest of tmp_entry as it was, shown here as zeros and
\* flagged by TornScan
TmpEntry(img, off) ==
  LET b == pread(img, EntrySize, off)
  IN  DecodeEntry(b \o [i \in 1..(EntrySize - Len(b)) |-> 0])

TornScan(parent) ==
  \E k \in 1..aantalfiles : ScanOffsets(parent)[k] + EntrySize > wfs_get_size

\* the name handed to the readdir filler: the C string that starts at
\* tmp_entry.filename, which runs into the next fields of the packed entry
\* when the name field holds no NUL
FillerName(e) == CStr(EncodeEntry(e))

\* The for loop of WFS_FILE_ENTRY_OP_FIND from slot k on: 1 with the slot's
\* entry at the first slot that is not empty and holds the name, else count,
\* which is 0.  slots is the number of slots read.
RECURSIVE find_from(_, _, _, _)
find_from(img, offs, k, e) ==
  IF k > Len(offs)
    THEN [ret |-> 0, entry |-> e, slots |-> Len(offs)]
  ELSE
    LET tmp_entry == TmpEntry(img, offs[k])
    IN  IF /\ ~wfs_file_entry_is_empty(tmp_entry)
           /\ strncmp_eq(tmp_entry.filename, e.filename)
          THEN [ret |-> 1, entry |-> tmp_entry, slots |-> k]
          ELSE find_from(img, offs, k + 1, e)

wfs_file_entry_operation_FIND(img, parent, e) ==
  IF e.filename[1] = 0
    THEN [ret |-> -EINVAL, entry |-> e, slots |-> 0]
    ELSE find_from(img, ScanOffsets(parent), 1, e)

\* WFS_FILE_ENTRY_OP_COUNT
wfs_file_entry_operation_COUNT(img, parent) ==
  LET offs == ScanOffsets(parent)
  IN  Cardinality({k \in 1..aantalfiles :
                     ~wfs_file_entry_is_empty(TmpEntry(img, offs[k]))})

\* WFS_FILE_ENTRY_OP_CALLBACK with wfs_readdir_callback: the names given to
\* the filler, in slot order
RECURSIVE CallbackNames(_, _, _)
CallbackNames(img, offs, k) ==
  IF k > Len(offs) THEN <<>>
  ELSE LET e == TmpEntry(img, offs[k])
       IN  (IF wfs_file_entry_is_empty(e) THEN <<>> ELSE <<FillerName(e)>>)
             \o CallbackNames(img, offs, k + 1)

wfs_file_entry_operation_CALLBACK(img, parent) ==
  CallbackNames(img, ScanOffsets(parent), 1)

(***************************************************************************)
(* Path resolution                                                         *)
(***************************************************************************)
PATH_MAX == 4096

\* strchr(path + pos, '/'): the index of the first '/' at or after pos, or
\* 0 for NULL.  Index Len(path) + 1 is the closing NUL.
strchr_slash(p, pos) ==
  LET s == {i \in pos..Len(p) : p[i] = Slash}
  IN  IF s = {} THEN 0 ELSE CHOOSE i \in s : \A j \in s : i <= j

\* while (*p == '/') p++
skip_slashes(p, pos) ==
  LET s == {i \in pos..(Len(p) + 1) : i = Len(p) + 1 \/ p[i] # Slash}
  IN  CHOOSE i \in s : \A j \in s : i <= j

\* The loop of wfs_find_entry from position pos with current_entry current.
\* The result gives the return value (ok) and *entry; why names the return
\* statement taken; scans lists, for every call of the FIND operation, the
\* parent it scanned and the number of slots it read.
RECURSIVE find_loop(_, _, _, _, _)
find_loop(img, p, pos, current, sc) ==
  LET sl == strchr_slash(p, pos)
  IN
  IF sl = 0
    THEN [ok |-> TRUE, entry |-> current, why |-> "end", scans |-> sc]
  ELSE
    LET start == skip_slashes(p, sl)
        nxt == strchr_slash(p, start)
        len0 == Min(Len(p) + 1 - start, PATH_MAX)
        end == IF nxt # 0 THEN nxt ELSE start + len0
        len == end - start + 1
        name == Name(SubSeq(p, start, end - 1))
        probe == [ZeroEntry EXCEPT !.filename = name]
        found == wfs_file_entry_operation_FIND(img, current, probe)
        scans2 == Append(sc, [parent |-> current, slots |-> found.slots])
    IN
    IF nxt = 0 /\ len0 = 0
      THEN [ok |-> TRUE, entry |-> current, why |-> "done", scans |-> sc]
    ELSE IF len >= WFS_FILENAME_SIZE - 1
      THEN [ok |-> FALSE, entry |-> current, why |-> "toolong", scans |-> sc]
    ELSE IF name[1] # 0 /\ found.ret <= 0
      THEN [ok |-> FALSE, entry |-> found.entry, why |-> "notfound", scans |-> scans2]
    ELSE find_loop(img, p, end, found.entry, scans2)

wfs_find_entry(img, p) ==
  IF Len(p) = 0 \/ p[1] # Slash
    THEN [ok |-> FALSE, entry |-> ZeroEntry, why |-> "nopath", scans |-> <<>>]
    ELSE find_loop(img, p, 1, ZeroEntry, <<>>)

(***************************************************************************)
(* The mounted file system and its FUSE operations                         *)
(***************************************************************************)
VARIABLES
  image,          \* the image opened at mount: an index into Images
  pc,             \* "idle", or where the running callback is
  op,             \* the callback that is running or has just returned
  path,           \* its path argument
  arg_size,       \* its size argument (read, write)
  arg_offset,     \* its offset argument (read, write)
  buf,            \* the caller's buffer: filled by read, the source of write
  ret,            \* the value returned
  out,            \* getattr: the stat fields; readdir: the names filled in
  entry,          \* wfs_file_entry_t entry
  why,            \* which return of wfs_find_entry was taken
  scans,          \* the directory scans made by the callback
  current_size,   \* wfs_read: const size_t current_size
  offset,         \* wfs_read: offset
  size,           \* wfs_read: size, the bytes still to transfer
  block,          \* wfs_read / wfs_get_current_block: block
  block_position, \* wfs_read: block_position
  o,              \* wfs_get_current_block: o
  read,           \* wfs_read: read
  tblReads,       \* the allocation-table slot indexes read by the callback
  blkReads,       \* the block numbers whose data the callback read
  chain_steps     \* the chain steps taken by the callback

args == <<op, path, arg_size, arg_offset>>
found == <<entry, why, scans>>
locals == <<current_size, offset, size, block, block_position, o, read>>
trace == <<tblReads, blkReads, chain_steps>>
vars == <<image, pc, args, buf, ret, out, found, locals, trace>>

Img == Images[image]

\* the largest block index the offsets and lengths of the calls reach
MaxBlk == 2

Paths ==
  {<<>>, s_docs, <<Slash>>, P1(s_docs), P2(s_docs, s_a_txt), P2(s_docs, s_missing),
   <<Slash>> \o P1(s_docs) \o <<Slash>> \o P1(s_a_txt) \o <<Slash>>,
   P1(s_f), P1(s_late), P1(s_n56), P1(s_n58), P1(s_n59),
   P1(s_g), P2(s_g, s_x), P1(s_big), P2(s_big, s_one), P2(s_big, s_deep),
   P2(s_big, s_x), P1(s_z), P1(s_c), P1(s_o), P1(s_s), P1(s_w)}
Offsets == {(k * WFS_BLOCK_SIZE) + d : k \in 0..MaxBlk, d \in {0, 500}}
Lengths == {0, 12, 100, WFS_BLOCK_SIZE, (MaxBlk * WFS_BLOCK_SIZE) + 76}
WriteBufs == {<<>>, <<7, 8, 9>>}

NoStat == [mode |-> "none", nlink |-> 0, size |-> 0]

Idle ==
  /\ pc = "idle" /\ op = "none" /\ path = <<>> /\ arg_size = 0 /\ arg_offset = 0
  /\ buf = <<>> /\ ret = 0 /\ out = NoStat
  /\ entry = ZeroEntry /\ why = "none" /\ scans = <<>>
  /\ current_size = 0 /\ offset = 0 /\ size = 0 /\ block = 0
  /\ block_position = 0 /\ o = 0 /\ read = 0
  /\ tblReads = <<>> /\ blkReads = <<>> /\ chain_steps = 0

\* main: wfs_image_open accepted the image and fuse_main serves the calls
Init == image \in 1..Len(Images) /\ Idle

\* a callback that returns r without having entered wfs_read's loops
Returns(r) ==
  /\ pc' = "done" /\ ret' = r
  /\ UNCHANGED <<image, locals, trace>>

Resolve(p) ==
  LET f == wfs_find_entry(Img, p)
  IN  entry' = f.entry /\ why' = f.why /\ scans' = f.scans

wfs_getattr(p) ==
  /\ pc = "idle"
  /\ op' = "getattr" /\ path' = p /\ UNCHANGED <<arg_size, arg_offset, buf>>
  /\ IF p = <<Slash>>
       THEN /\ out' = [mode |-> "dir", nlink |-> 2, size |-> 0]
            /\ UNCHANGED found
            /\ Returns(0)
       ELSE LET f == wfs_find_entry(Img, p)
            IN  /\ Resolve(p)
                /\ IF ~f.ok
                     THEN out' = NoStat /\ Returns(-ENOENT)
                     ELSE /\ out' = [mode |-> IF wfs_file_entry_is_directory(f.entry)
                                                THEN "dir" ELSE "reg",
                                     nlink |-> IF wfs_file_entry_is_directory(f.entry)
                                                 THEN 2 ELSE 1,
                                     size |-> wfs_file_entry_get_size(f.entry)]
                          /\ Returns(0)

Dot == <<46>>
DotDot == <<46, 46>>

wfs_readdir(p) ==
  /\ pc = "idle"
  /\ op' = "readdir" /\ path' = p /\ UNCHANGED <<arg_size, arg_offset, buf>>
  /\ LET f == wfs_find_entry(Img, p)
     IN  /\ entry' = f.entry /\ why' = f.why
         /\ IF ~f.ok
              THEN scans' = f.scans /\ out' = <<>> /\ Returns(-ENOENT)
            ELSE IF ~wfs_file_entry_is_empty(f.entry)
                      /\ ~wfs_file_entry_is_directory(f.entry)
              THEN scans' = f.scans /\ out' = <<>> /\ Returns(-ENOTDIR)
            ELSE /\ scans' = Append(f.scans, [parent |-> f.entry, slots |-> aantalfiles])
                 /\ out' = <<Dot, DotDot>>
                             \o wfs_file_entry_operation_CALLBACK(Img, f.entry)
                 /\ Returns(0)

wfs_open(p) ==
  /\ pc = "idle"
  /\ op' = "open" /\ path' = p /\ UNCHANGED <<arg_size, arg_offset, buf, out>>
  /\ LET f == wfs_find_entry(Img, p)
     IN  /\ Resolve(p)
         /\ IF ~f.ok THEN Returns(-ENOENT)
            ELSE IF wfs_file_entry_is_directory(f.entry) THEN Returns(-EISDIR)
            ELSE Returns(0)

wfs_write(p, b, off) ==
  /\ pc = "idle"
  /\ op' = "write" /\ path' = p /\ arg_size' = Len(b) /\ arg_offset' = off
  /\ buf' = b
  /\ UNCHANGED <<out, found>>
  /\ Returns(-ENOSYS)

wfs_rmdir(p) ==
  /\ pc = "idle"
  /\ op' = "rmdir" /\ path' = p
  /\ UNCHANGED <<arg_size, arg_offset, buf, out, found>>
  /\ Returns(-ENOSYS)

wfs_create(p) ==
  /\ pc = "idle"
  /\ op' = "create" /\ path' = p
  /\ UNCHANGED <<arg_size, arg_offset, buf, out, found>>
  /\ Returns(-ENOSYS)

(***************************************************************************)
(* wfs_read                                                                *)
(***************************************************************************)
\* a walk that would follow the chain to its end whatever the offset
walk_to_end_of_chain(off, oo) == TRUE

\* the loop condition of wfs_get_current_block
gcb_loop_condition(off, oo) == off >= oo + WFS_BLOCK_SIZE

\* wfs_read returns r from one of its loops
ReadReturns(r) == pc' = "done" /\ ret' = r

\* The call up to the loop of wfs_get_current_block: path resolution, the
\* offset check and the first statements of wfs_get_current_block.
wfs_read_call(p, sz, off) ==
  /\ pc = "idle"
  /\ op' = "read" /\ path' = p /\ arg_size' = sz /\ arg_offset' = off
  /\ UNCHANGED <<image, buf, out, trace>>
  /\ LET f == wfs_find_entry(Img, p)
         cs == wfs_file_entry_get_size(f.entry)
     IN  /\ Resolve(p)
         /\ IF ~f.ok
              THEN ReadReturns(-ENOENT) /\ UNCHANGED locals
            ELSE IF off > cs
              THEN /\ ReadReturns(-EINVAL)
                   /\ current_size' = cs
                   /\ UNCHANGED <<offset, size, block, block_position, o, read>>
            ELSE /\ current_size' = cs /\ offset' = off /\ size' = sz
                 /\ block' = f.entry.start_block /\ o' = 0
                 /\ UNCHANGED <<block_position, read>>
                 /\ IF f.entry.start_block = WFS_BLOCK_EOF
                      THEN ReadReturns(-EIO)
                      ELSE pc' = "gcb" /\ UNCHANGED ret

\* One test of the loop of wfs_get_current_block: an iteration, or the exit
\* with the statements of wfs_read up to its own loop.
wfs_get_current_block_step ==
  /\ pc = "gcb"
  /\ UNCHANGED <<image, args, buf, out, found, current_size, offset, blkReads>>
  /\ IF gcb_loop_condition(offset, o)
       THEN LET idx == AsUint16(block - 1)
                b == wfs_block_table_read(Img, idx)
            IN  /\ block' = b
                /\ tblReads' = Append(tblReads, idx)
                /\ chain_steps' = chain_steps + 1
                /\ UNCHANGED <<size, block_position, read>>
                /\ IF b = WFS_BLOCK_EOF
                     THEN ReadReturns(-EIO) /\ UNCHANGED o
                     ELSE /\ o' = o + WFS_BLOCK_SIZE
                          /\ UNCHANGED <<pc, ret>>
       ELSE /\ block_position' = AsUint16(offset - o)
            /\ UNCHANGED <<block, o, tblReads, chain_steps>>
            /\ IF block >= WFS_BLOCK_EOF
                 THEN ReadReturns(-EIO) /\ UNCHANGED <<size, read>>
                 ELSE /\ size' = IF offset + size > current_size
                                   THEN current_size - offset ELSE size
                      /\ read' = 0
                      /\ pc' = "loop" /\ UNCHANGED ret

\* One test of the while loop of wfs_read: an iteration, or the exit with
\* return read.
wfs_read_loop_step ==
  /\ pc = "loop"
  /\ UNCHANGED <<image, args, out, found, current_size, o>>
  /\ IF size > 0 /\ block > WFS_BLOCK_FREE /\ block <= WFS_BLOCK_EOF
       THEN LET block_offset == wfs_get_block_offset(block - 1)
                t0 == IF block_position = 0 THEN WFS_BLOCK_SIZE
                      ELSE WFS_BLOCK_SIZE - block_position
                t1 == IF t0 > size THEN size ELSE t0
                got == pread(Img, t1, block_offset + block_position)
                transfer == Len(got)
                left == size - transfer
                nb == wfs_get_next_block(Img, block)
                looked == block # WFS_BLOCK_EOF /\ block - 1 < WFS_N_BLOCKS
            IN  /\ buf' = buf \o got
                /\ blkReads' = Append(blkReads, block)
                /\ size' = left
                /\ read' = read + transfer
                /\ offset' = offset + transfer
                /\ IF left > 0
                     THEN /\ block' = nb
                          /\ block_position' = 0
                          /\ chain_steps' = chain_steps + 1
                          /\ tblReads' = IF looked
                                           THEN Append(tblReads, AsUint16(block - 1))
                                           ELSE tblReads
                          /\ IF nb = WFS_BLOCK_FREE \/ nb >= WFS_BLOCK_EOF
                               THEN ReadReturns(-EIO)
                               ELSE UNCHANGED <<pc, ret>>
                     ELSE UNCHANGED <<block, block_position, chain_steps,
                                      tblReads, pc, ret>>
       ELSE /\ ReadReturns(read)
            /\ UNCHANGED <<buf, size, block, block_position, offset, read, trace>>

\* the callback has returned to FUSE, which may dispatch the next call
Return ==
  /\ pc = "done"
  /\ pc' = "idle" /\ op' = "none" /\ path' = <<>> /\ arg_size' = 0 /\ arg_offset' = 0
  /\ buf' = <<>> /\ ret' = 0 /\ out' = NoStat
  /\ entry' = ZeroEntry /\ why' = "none" /\ scans' = <<>>
  /\ current_size' = 0 /\ offset' = 0 /\ size' = 0 /\ block' = 0
  /\ block_position' = 0 /\ o' = 0 /\ read' = 0
  /\ tblReads' = <<>> /\ blkReads' = <<>> /\ chain_steps' = 0
  /\ UNCHANGED image

Next ==
  \/ \E p \in Paths : wfs_getattr(p)
  \/ \E p \in Paths : wfs_readdir(p)
  \/ \E p \in Paths : wfs_open(p)
  \/ \E p \in Paths : wfs_rmdir(p)
  \/ \E p \in Paths : wfs_create(p)
  \/ \E p \in Paths, b \in WriteBufs, off \in Offsets : wfs_write(p, b, off)
  \/ \E p \in Paths, sz \in Lengths, off \in Offsets : wfs_read_call(p, sz, off)
  \/ wfs_get_current_block_step
  \/ wfs_read_loop_step
  \/ Return

Spec == Init /\ [][Next]_vars

\* Within one callback nothing waits: a loop that can take its next test
\* takes it.
FairSpec ==
  Spec /\ WF_vars(wfs_get_current_block_step) /\ WF_vars(wfs_read_loop_step)

(***************************************************************************)
(* What an image holds, read from its description and its raw regions,     *)
(* independently of the operations above                                   *)
(***************************************************************************)
Range(f) == {f[i] : i \in DOMAIN f}
CeilDiv(a, b) == (a + b - 1) \div b

\* the components of a path: the non-empty pieces between the slashes
RECURSIVE Split(_)
Split(p) ==
  IF p = <<>> THEN <<>>
  ELSE IF p[1] = Slash THEN Split(Tail(p))
  ELSE LET sl == strchr_slash(p, 1)
       IN  IF sl = 0 THEN <<p>>
           ELSE <<SubSeq(p, 1, sl - 1)>> \o Split(SubSeq(p, sl, Len(p)))

Absolute(p) == p # <<>> /\ p[1] = Slash

\* the regular files and the directories a path names
FilesAt(p) == {f \in Img.files : Absolute(p) /\ Split(f.path) = Split(p)}
DirsAt(p) == {d \in Img.dirs : Absolute(p) /\ Split(d.path) = Split(p)}

TableAt(idx) == IF idx \in DOMAIN Img.table THEN Img.table[idx] ELSE WFS_BLOCK_FREE

\* the chain of f has exactly ceil(size / 512) blocks, all in [1, 16384],
\* linked in the allocation table and ended by the end-of-chain sentinel
ChainWellFormed(f) ==
  /\ Len(f.chain) = CeilDiv(f.size, WFS_BLOCK_SIZE)
  /\ \A k \in 1..Len(f.chain) :
       /\ f.chain[k] \in 1..WFS_N_BLOCKS
       /\ TableAt(f.chain[k] - 1) =
            IF k = Len(f.chain) THEN WFS_BLOCK_EOF ELSE f.chain[k + 1]

\* byte i (from 0) of the logical content of f: the concatenation of the
\* data blocks of its chain, in chain order
ContentByte(f, i) ==
  LET b == f.chain[(i \div WFS_BLOCK_SIZE) + 1]
  IN  IF b \in DOMAIN Img.data THEN Img.data[b][(i % WFS_BLOCK_SIZE) + 1] ELSE 0

Content(f, from, n) == [i \in 1..n |-> ContentByte(f, from + i - 1)]

\* the byte offsets of the slots that belong to directory d: the root table,
\* or the 8 slots of every block of the directory's chain
DirSlotOffsets(d) ==
  IF d.chain = <<>>
    THEN {WFS_ENTRIES_START + (i * EntrySize) : i \in 0..(WFS_N_FILES - 1)}
    ELSE {wfs_get_block_offset(b - 1) + (i * EntrySize) :
            b \in Range(d.chain), i \in 0..((WFS_BLOCK_SIZE \div EntrySize) - 1)}

\* the number of the data block that holds byte offset off of the image
BlockAt(off) == ((off - WFS_DATA_START) \div WFS_BLOCK_SIZE) + 1

\* the byte offsets of the slots one recorded scan read
ScannedOffsets(scan) == {ScanOffsets(scan.parent)[k] : k \in 1..scan.slots}

Done(what) == pc = "done" /\ op = what
Resolving == op \in {"getattr", "readdir", "open", "read"} /\ why # "none"
Resolved == why \in {"end", "done"}

(***************************************************************************)
(* Properties                                                              *)
(***************************************************************************)

\* C1: for every regular file of a well-formed image, every offset with
\* 0 <= offset < size and every length, wfs_read returns
\* n = min(length, size - offset) and the buffer holds bytes
\* [offset, offset + n) of the file's logical content.
C1_ReadReturnsContent ==
  (Done("read") /\ Img.wellFormed) =>
    \A f \in FilesAt(path) :
      (ChainWellFormed(f) /\ 0 <= arg_offset /\ arg_offset < f.size) =>
        LET n == Min(arg_size, f.size - arg_offset)
        IN  ret = n /\ buf = Content(f, arg_offset, n)

\* The same for the files wfs_find_entry resolves: what wfs_read itself adds
\* to the resolution is right.
ReadOfResolvedFileReturnsContent ==
  (Done("read") /\ Img.wellFormed /\ Resolved) =>
    \A f \in FilesAt(path) :
      (ChainWellFormed(f) /\ 0 <= arg_offset /\ arg_offset < f.size) =>
        LET n == Min(arg_size, f.size - arg_offset)
        IN  ret = n /\ buf = Content(f, arg_offset, n)

\* C2: for every regular file of a well-formed image, wfs_read at
\* offset = size returns 0, never an error.
C2_ReadAtSizeReturnsZero ==
  (Done("read") /\ Img.wellFormed) =>
    \A f \in FilesAt(path) :
      (ChainWellFormed(f) /\ arg_offset = f.size) => ret = 0

\* C3: path resolution looks a component up only in a directory (the root
\* counts as one): no scan reads the data blocks of a regular file as file
\* entries, and so no path with a regular file before its last component
\* resolves.
C3_ScansOnlyDirectories ==
  (pc = "done" /\ Resolving) =>
    \A k \in 1..Len(scans) :
      \/ wfs_file_entry_is_empty(scans[k].parent)
      \/ wfs_file_entry_is_directory(scans[k].parent)

\* C4: the scan readdir makes of a directory reads exactly the slots of the
\* directory (the 64 slots of the root table, or the 8 slots of every block
\* on the directory's chain), and lists every name stored in them.
C4_ScanCoversDirectory ==
  (Done("readdir") /\ ret = 0) =>
    \A d \in DirsAt(path) :
      /\ ScannedOffsets(scans[Len(scans)]) = DirSlotOffsets(d)
      /\ d.names \subseteq Range(out)

\* C5: wfs_open returns -EISDIR for every path that names a directory, the
\* root included, 0 for a path that names a regular file, and -ENOENT
\* exactly when the path names nothing.
C5_OpenResult ==
  Done("open") =>
    /\ DirsAt(path) # {} => ret = -EISDIR
    /\ FilesAt(path) # {} => ret = 0
    /\ (DirsAt(path) = {} /\ FilesAt(path) = {}) <=> ret = -ENOENT

\* C6: wfs_write of the bytes B at an offset in [0, size] of an existing
\* regular file returns |B| (and a read of the range then returns B).
C6_WriteReturnsCount ==
  Done("write") =>
    \A f \in FilesAt(path) : arg_offset <= f.size => ret = Len(buf)

\* C7: wfs_find_entry rejects a component for its length exactly when the
\* component is longer than the 58 bytes of the name field, and then before
\* any scan.
C7_RejectsOnlyLongerNames ==
  (pc = "done" /\ Resolving) =>
    LET comps == Split(path)
    IN  /\ why = "toolong" => \E k \in 1..Len(comps) : Len(comps[k]) > WFS_FILENAME_SIZE
        /\ (comps # <<>> /\ Len(comps[1]) > WFS_FILENAME_SIZE) =>
             (why = "toolong" /\ scans = <<>>)

\* C8: on every image, wfs_read with 0 <= offset < size returns
\* min(length, size - offset) or -EIO; when the walk meets a free slot or an
\* out-of-range pointer before that many bytes are produced it returns -EIO.
C8_FullCountOrEIO ==
  (Done("read") /\ Resolved /\ 0 <= arg_offset /\ arg_offset < current_size) =>
    LET n == Min(arg_size, current_size - arg_offset)
    IN  /\ ret = n \/ ret = -EIO
        /\ (n > 0 /\ \E k \in 1..Len(tblReads) : tblReads[k] >= WFS_N_BLOCKS)
             => ret = -EIO

\* C9: every read of the allocation table uses a slot index in [0, 16383],
\* and every read of a data block or of a directory block uses a block
\* number in [1, 16384].
C9_BlockNumbersInRange ==
  /\ \A k \in 1..Len(tblReads) : tblReads[k] \in 0..(WFS_N_BLOCKS - 1)
  /\ \A k \in 1..Len(blkReads) : blkReads[k] \in 1..WFS_N_BLOCKS
  /\ \A k \in 1..Len(scans) :
       \/ wfs_file_entry_is_empty(scans[k].parent)
       \/ \A off \in ScannedOffsets(scans[k]) : BlockAt(off) \in 1..WFS_N_BLOCKS

\* the chain steps of wfs_read stay within ceil(size / 512) + 1
ChainStepsBounded ==
  chain_steps <= CeilDiv(current_size, WFS_BLOCK_SIZE) + 1

\* every scan reads at most the slots of the root table, and there are no
\* more scans than the path has bytes
WalkBounded ==
  /\ Len(scans) <= Len(path)
  /\ \A k \in 1..Len(scans) : scans[k].slots <= WFS_N_FILES

\* C10: every call terminates on every image, one with a cyclic chain
\* included: a call that has entered a loop of wfs_read returns, within
\* ceil(size / 512) + 1 chain steps, and the scans and the path walk are
\* bounded by the slot count and the length of the path.
C10_CallsTerminate ==
  /\ [](ChainStepsBounded /\ WalkBounded)
  /\ (pc \in {"gcb", "loop"}) ~> (pc = "done")

\* a read of /c, whose chain 6 -> 7 -> 6 is a cycle, has gone round the
\* cycle and returned the 476 bytes left after offset 1024
C10_Witness ==
  /\ Done("read") /\ ~Img.wellFormed /\ path = P1(s_c)
  /\ tblReads = <<5, 6>> /\ chain_steps = 2
  /\ ret = 476 /\ Len(buf) = 476

\* no scan of the calls modelled is cut short by the end of the image
NoTornScan == \A k \in 1..Len(scans) : ~TornScan(scans[k].parent)

=============================================================================
